---- MODULE Spec2Model ----
(***************************************************************************)
(* Model of the data-exploration MCP server (src/src/simple_mcp_server.py):*)
(* the request dispatcher handle_call_tool, the process-wide guided        *)
(* analysis session analysis_session, and the two handlers that read and   *)
(* write it, handle_start_guided_analysis and handle_continue_analysis.    *)
(*                                                                         *)
(* Python values are represented as follows.  A dict is a record (a        *)
(* function on its keys), so "key in dict" is "key \in DOMAIN dict".  A    *)
(* list is a sequence.  None is the empty tuple <<>> where the other       *)
(* values of the field are tuples, and the string "None" where they are    *)
(* strings.  An f-string is the tuple of its literal text and its          *)
(* interpolated values.  A DataFrame is the pair <<path, form>> of the     *)
(* file it was read from and "raw" or "optimized".                         *)
(***************************************************************************)
EXTENDS Integers, Sequences, FiniteSets, TLC

VARIABLES
    analysis_session,   \* the global session dict (lines 90-99)
    prev_session,       \* analysis_session as the request found it
    call,               \* the request just served, [name, args]; name "none"
                        \* while the server waits for the next request
    response,           \* the dict encoded in the TextContent of its reply
    handler_run,        \* handler function the request invoked, or "none"
    phase_run,          \* phase function (1..5) the request invoked, or 0
    loads,              \* load_data_file calls the request made
    succ_count,         \* continue calls answered "success" since the last start
    fresh,              \* TRUE from a successful start until the next start call
    exception,          \* exception raised while the request was served, and
                        \* whether it reached the dispatcher's except clause
    clients,            \* who sent the request, and what each client has
                        \* been told (used by SpecClients only)
    loop,               \* the asyncio event loop: the task of each request
                        \* in progress and the task now executing (used by
                        \* SpecSteps only)
    skew_case,          \* a skewness value and the labels the two tools give
                        \* it (used by SpecSkew only)
    column_case,        \* one numeric column and what the two statistics
                        \* tools report on it (used by SpecColumn only)
    overview_case,      \* a dataset's dimensions and missing cells, and the
                        \* reply of dataset_overview (used by SpecOverview only)
    json_case           \* an object and what safe_json_serialize returns for
                        \* it (used by SpecJson only)

vars == <<analysis_session, prev_session, call, response, handler_run, phase_run, loads,
          succ_count, fresh, exception, clients, loop, skew_case, column_case,
          overview_case, json_case>>

-----------------------------------------------------------------------------
(* ANALYSIS_STEPS, lines 102-158: step number and name of the five phases. *)
ANALYSIS_STEPS ==
    << [step |-> 1, name |-> "Memory Optimization & Data Profiling"],
       [step |-> 2, name |-> "Exploratory Data Analysis"],
       [step |-> 3, name |-> "Business Context Analysis"],
       [step |-> 4, name |-> "Advanced Analytics"],
       [step |-> 5, name |-> "Insights & Recommendations"] >>

TruncLimit == 100

-----------------------------------------------------------------------------
(* The files of the environment.  Each path stands for one kind of input   *)
(* the handlers treat differently:                                         *)
(*   ""                the default of args.get("file_path", ""): Path("")  *)
(*                     is the working directory, which exists and which    *)
(*                     pd.read_csv cannot read                             *)
(*   "missing.csv"     no such file                                        *)
(*   "empty.csv"       a header and no rows: object columns, len 0         *)
(*   "sales.csv"       a clean table, revenue/cost columns                 *)
(*   "survey.csv"      a table with missing values and one numeric column  *)
(*   "codes.xlsx"      a table whose column labels are integers            *)
(*   "events.parquet"  a table with an object column of date values        *)
JsonNull == "<null>"

Paths ==
    {"", "missing.csv", "empty.csv", "sales.csv", "survey.csv", "codes.xlsx",
     "events.parquet"}

(* What the handlers observe of each file. *)
ExistingPaths == Paths \ {"missing.csv"}           \* Path(p).exists()

UnreadablePaths == {""}                            \* load_data_file raises

load_error(p) == IF p \in UnreadablePaths THEN "IsADirectoryError" ELSE "none"

RowCount(p) ==                                     \* len(data)
    CASE p = "sales.csv" -> 5
      [] p = "survey.csv" -> 8
      [] p = "codes.xlsx" -> 6
      [] p = "events.parquet" -> 10
      [] OTHER -> 0

NumericCols(p) ==                                  \* select_dtypes(['number'])
    CASE p = "sales.csv" -> 3
      [] p = "codes.xlsx" -> 2
      [] p = "survey.csv" -> 1
      [] p = "events.parquet" -> 1
      [] OTHER -> 0

\* files with columns of dtype object
ObjectColPaths == {"empty.csv", "sales.csv", "survey.csv", "events.parquet"}

\* files whose column labels are not strings
NonStrLabelPaths == {"codes.xlsx"}

\* files with missing values; with a column more than 10% missing
MissingPaths == {"survey.csv"}

HighMissingPaths == {"survey.csv"}

\* files with a pair of numeric columns correlated above 0.7
StrongCorrPaths == {"sales.csv"}

\* files with a label containing id, revenue, cost, ..., customer
ImportantColPaths == {"empty.csv", "sales.csv", "events.parquet"}

\* files with a label containing revenue, profit, cost, amount, price, sales
KpiColPaths == {"sales.csv"}

\* files whose session DataFrame keeps an object column with fewer than 20
\* distinct values
SegmentColPaths == {"empty.csv", "sales.csv", "events.parquet"}

\* files whose object columns hold datetime.date values
DateValuePaths == {"events.parquet"}

value_key_type(p) == IF p \in DateValuePaths THEN "date" ELSE "str"

\* data.columns
Columns(p) ==
    CASE p = "sales.csv" -> {"revenue", "cost", "units", "region"}
      [] p = "survey.csv" -> {"score", "comment"}
      [] p = "events.parquet" -> {"count", "when"}
      [] p = "empty.csv" -> {"id", "name"}
      [] OTHER -> {}

\* columns pd.to_datetime converts
DateColumns(p) == IF p = "events.parquet" THEN {"when"} ELSE {}

(* Request arguments.  A file_path is absent (the default ""), a path or   *)
(* JSON null; a goal is absent or text; a user_response is absent or a     *)
(* JSON value: a string of some length, or null.                           *)
PathArgs == (Paths \ {""}) \cup {JsonNull}
GoalArgs == {"reduce churn"}

StrVal(n) == [type |-> "str", len |-> n]
NullVal == [type |-> "null", len |-> 0]
Responses == {StrVal(0), StrVal(12), StrVal(TruncLimit), StrVal(TruncLimit + 1),
              NullVal}

NoArgs == [k \in {} |-> ""]

(* dict.get(key, default) *)
Get(args, key, default) == IF key \in DOMAIN args THEN args[key] ELSE default

-----------------------------------------------------------------------------
(* Outcome of running a handler: the session it leaves, and either the     *)
(* dict it returns or the exception it lets escape.  exc is the exception  *)
(* raised while it ran ("none" if none was); str(e) is represented by the  *)
(* exception's type.  Caught is the dict returned by an except clause of   *)
(* the handler itself.                                                     *)
Return(sess, value, phase, nloads) ==
    [sess |-> sess, raised |-> FALSE, value |-> value, exc |-> "none",
     phase |-> phase, loads |-> nloads]

Caught(sess, value, exc, phase, nloads) ==
    [sess |-> sess, raised |-> FALSE, value |-> value, exc |-> exc,
     phase |-> phase, loads |-> nloads]

Raise(sess, exc, phase, nloads) ==
    [sess |-> sess, raised |-> TRUE, value |-> NoArgs, exc |-> exc,
     phase |-> phase, loads |-> nloads]

(* The session dict at import time, lines 90-99. *)
InitialSession ==
    [current_step |-> 0, data |-> <<>>, data_profile |-> <<>>,
     analysis_goal |-> "None", findings |-> <<>>, next_questions |-> <<>>,
     file_path |-> "None", completed_steps |-> <<>>]

-----------------------------------------------------------------------------
(* load_data_file, lines 21-51: the DataFrame read from the path, or the   *)
(* exception the reader raises.                                            *)
load_data_file_raises(file_path) == file_path \in UnreadablePaths

load_data_file(file_path) == <<file_path, "raw">>

(* The narrowing loop of lines 2579-2584.  nunique() / len(...) divides two *)
(* Python ints, so an object column of a table with no rows raises         *)
(* ZeroDivisionError.                                                      *)
narrowing_raises(file_path) ==
    file_path \in ObjectColPaths /\ RowCount(file_path) = 0

optimized_data(file_path) == <<file_path, "optimized">>

(* The profile dict of lines 2593-2601. *)
profile(file_path) == <<"profile", file_path>>

(* col.lower() of lines 2631-2634 raises AttributeError on a label that is *)
(* not a string.                                                           *)
labels_raise(file_path) == file_path \in NonStrLabelPaths

(* The initial findings list of lines 2608-2639. *)
initial_findings(file_path, analysis_goal) ==
    << <<"Memory optimized", file_path>>,
       <<"Memory usage", file_path>>,
       <<"Estimated monthly savings", file_path>>,
       <<"Dataset", file_path>>,
       <<"Analysis goal", analysis_goal>>,
       <<"Optimized composition", file_path>> >>
    \o (IF file_path \in MissingPaths
        THEN << <<"Missing data", file_path>> >>
        ELSE << <<"No missing data detected">> >>)
    \o (IF file_path \in ImportantColPaths
        THEN << <<"Key columns identified", file_path>> >>
        ELSE << >>)
    \o << <<"READY">> >>

(* Faulty variant: the reset stores the default goal instead of the caller's. *)
reset_session_default_goal(file_path, analysis_goal) ==
    [current_step |-> 1, data |-> load_data_file(file_path),
     data_profile |-> <<>>, analysis_goal |-> "comprehensive exploration",
     findings |-> <<>>, next_questions |-> <<>>, file_path |-> file_path,
     completed_steps |-> <<>>]

(* Faulty variant: the reset leaves the session at step 2. *)
reset_session_at_step_two(file_path, analysis_goal) ==
    [current_step |-> 2, data |-> load_data_file(file_path),
     data_profile |-> <<>>, analysis_goal |-> analysis_goal,
     findings |-> <<>>, next_questions |-> <<>>, file_path |-> file_path,
     completed_steps |-> <<>>]

(* The reset of lines 2561-2570. *)
reset_session(file_path, analysis_goal) ==
    [current_step |-> 1, data |-> load_data_file(file_path),
     data_profile |-> <<>>, analysis_goal |-> analysis_goal,
     findings |-> <<>>, next_questions |-> <<>>, file_path |-> file_path,
     completed_steps |-> <<>>]

(* Lines 2587-2602: the optimized data, the three memory keys and the      *)
(* profile are stored in the session that was just reset.                  *)
stored_session(file_path, analysis_goal) ==
    [reset_session(file_path, analysis_goal) EXCEPT
        !.data = optimized_data(file_path),
        !.data_profile = profile(file_path)]
    @@ [original_memory |-> <<"MB", file_path, "raw">>,
        optimized_memory |-> <<"MB", file_path, "optimized">>,
        memory_reduction |-> <<"percent", file_path>>]

(* The success dict of lines 2643-2666. *)
start_result(file_path, analysis_goal) ==
    [status |-> "success",
     session_started |-> TRUE,
     current_step |-> [number |-> ANALYSIS_STEPS[1].step,
                       name |-> ANALYSIS_STEPS[1].name],
     data_overview |-> [file_name |-> file_path,
                        rows |-> RowCount(file_path),
                        analysis_goal |-> analysis_goal],
     initial_findings |-> initial_findings(file_path, analysis_goal),
     next_questions |-> <<"questions", ANALYSIS_STEPS[1].step>>]

(* The try block of handle_start_guided_analysis, lines 2554-2671: the     *)
(* session is reset as soon as the first load has succeeded, and an        *)
(* exception raised later is answered with an error dict.                  *)
start_try_block(sess, file_path, analysis_goal) ==
    LET failed(e) == [error |-> <<"Failed to start guided analysis: ", e>>]
    IN  IF load_data_file_raises(file_path)
        THEN Caught(sess, failed(load_error(file_path)),
                    load_error(file_path), 0, 1)
        ELSE IF narrowing_raises(file_path)
        THEN Caught(reset_session(file_path, analysis_goal),
                    failed("ZeroDivisionError"), "ZeroDivisionError", 0, 2)
        ELSE IF labels_raise(file_path)
        THEN Caught(stored_session(file_path, analysis_goal),
                    failed("AttributeError"), "AttributeError", 0, 2)
        ELSE Return([stored_session(file_path, analysis_goal) EXCEPT
                        !.findings = initial_findings(file_path, analysis_goal)],
                    start_result(file_path, analysis_goal), 0, 2)

(* Faulty variant: the session is cleared before the path is tested. *)
handle_start_guided_analysis_reset_first(sess, args) ==
    LET file_path == Get(args, "file_path", "")
        analysis_goal == Get(args, "analysis_goal", "comprehensive exploration")
    IN  IF file_path = JsonNull
        THEN Raise(sess, "TypeError", 0, 0)
        ELSE IF file_path \notin ExistingPaths
        THEN Return([InitialSession EXCEPT !.analysis_goal = analysis_goal,
                                           !.file_path = file_path],
                    [error |-> <<"File not found: ", file_path>>], 0, 0)
        ELSE start_try_block(sess, file_path, analysis_goal)

(* handle_start_guided_analysis, lines 2544-2671. *)
handle_start_guided_analysis(sess, args) ==
    LET file_path == Get(args, "file_path", "")
        analysis_goal == Get(args, "analysis_goal", "comprehensive exploration")
    IN  IF file_path = JsonNull
        THEN \* Path(None) raises outside the try block
             Raise(sess, "TypeError", 0, 0)
        ELSE IF file_path \notin ExistingPaths
        THEN Return(sess, [error |-> <<"File not found: ", file_path>>], 0, 0)
        ELSE start_try_block(sess, file_path, analysis_goal)

-----------------------------------------------------------------------------
(* The five phase functions.  Each returns {"findings": [...],             *)
(* "analysis": {...}} or raises; none of them reads user_response or       *)
(* focus_area.  The field segment_keys of "analysis" is the type of the    *)
(* dict keys the analysis takes from the values of the data.               *)

(* perform_data_discovery, lines 2776-2813. *)
perform_data_discovery(data) ==
    [findings |->
        << <<"Completed detailed column profiling">>,
           <<"Data types", data[1]>> >>
        \o (IF data[1] \in HighMissingPaths
            THEN << <<"Quality issues found", data[1]>> >>
            ELSE << <<"Good data quality">> >>),
     analysis |-> [columns |-> data[1], segment_keys |-> "str"]]

(* perform_exploratory_analysis, lines 2815-2864. *)
perform_exploratory_analysis(data) ==
    [findings |->
        (IF NumericCols(data[1]) > 1
         THEN IF data[1] \in StrongCorrPaths
              THEN << <<"Found strong correlations", data[1]>> >>
              ELSE << <<"No strong correlations detected">> >>
         ELSE << >>)
        \o << <<"Completed distribution and outlier analysis">> >>,
     analysis |-> [distributions |-> data[1], segment_keys |-> "str"]]

(* perform_business_analysis, lines 2866-2897.  col.lower() at line 2874   *)
(* raises on a label that is not a string; the keys of "segments" are the  *)
(* values of the object columns.                                           *)
perform_business_analysis_raises(data) == data[1] \in NonStrLabelPaths

perform_business_analysis(data) ==
    [findings |->
        (IF data[1] \in KpiColPaths
         THEN << <<"Identified potential KPIs", data[1]>> >>
         ELSE << >>)
        \o (IF data[1] \in SegmentColPaths
            THEN << <<"Found potential segmentation variables", data[1]>> >>
            ELSE << >>)
        \o << <<"Completed business context analysis">> >>,
     analysis |-> [segments |-> data[1],
                   segment_keys |-> IF data[1] \in SegmentColPaths
                                    THEN value_key_type(data[1])
                                    ELSE "str"]]

(* perform_advanced_analysis, lines 2899-2939. *)
perform_advanced_analysis(data) ==
    [findings |->
        << <<"Identified statistical testing opportunities", data[1]>>,
           <<"Found ML/AI opportunities", data[1]>> >>,
     analysis |-> [test_suggestions |-> data[1], segment_keys |-> "str"]]

(* perform_insights_synthesis, lines 2941-2969. *)
perform_insights_synthesis(data) ==
    [findings |->
        << <<"Generated comprehensive insights summary">>,
           <<"Provided actionable recommendations">> >>,
     analysis |-> [key_insights |-> data[1], segment_keys |-> "str"]]

(* The if/elif chain of lines 2704-2717; step_analysis stays {} when no    *)
(* branch matches.                                                         *)
phase_raises(current_step_num, data) ==
    current_step_num = 3 /\ perform_business_analysis_raises(data)

step_analysis_of(current_step_num, data) ==
    CASE current_step_num = 1 -> perform_data_discovery(data)
      [] current_step_num = 2 -> perform_exploratory_analysis(data)
      [] current_step_num = 3 -> perform_business_analysis(data)
      [] current_step_num = 4 -> perform_advanced_analysis(data)
      [] current_step_num = 5 -> perform_insights_synthesis(data)
      [] OTHER -> NoArgs

(* Faulty variant: the step counter advances by two. *)
update_session_skip(sess, step_analysis, current_step) ==
    [sess EXCEPT
        !.findings = @ \o Get(step_analysis, "findings", <<>>),
        !.completed_steps = Append(@, current_step.name),
        !.current_step = @ + 2]

(* Faulty variant: the finished step is not recorded. *)
update_session_no_append(sess, step_analysis, current_step) ==
    [sess EXCEPT
        !.findings = @ \o Get(step_analysis, "findings", <<>>),
        !.current_step = @ + 1]

(* Faulty variant: the findings are assigned instead of extended. *)
update_session_overwrite(sess, step_analysis, current_step) ==
    [sess EXCEPT
        !.findings = Get(step_analysis, "findings", <<>>),
        !.completed_steps = Append(@, current_step.name),
        !.current_step = @ + 1]

(* The "Update session" block, lines 2720-2722. *)
update_session(sess, step_analysis, current_step) ==
    [sess EXCEPT
        !.findings = @ \o Get(step_analysis, "findings", <<>>),
        !.completed_steps = Append(@, current_step.name),
        !.current_step = @ + 1]

(* Line 2737: len(user_response) raises TypeError on a value without a     *)
(* length; a longer string is cut to 100 characters plus "...".            *)
user_input_raises(user_response) == user_response.type # "str"

user_input(user_response) ==
    IF user_response.len > TruncLimit
    THEN StrVal(TruncLimit + 3)
    ELSE user_response

(* The completion summary of lines 2688-2696. *)
completed_result(sess) ==
    [status |-> "completed",
     message |-> "Analysis complete! All steps have been finished.",
     summary |-> [completed_steps |-> sess.completed_steps,
                  total_findings |-> Len(sess.findings),
                  analysis_goal |-> sess.analysis_goal]]

(* Faulty variant: the next step is looked up with < instead of <=. *)
continue_result_off_by_one(sess, current_step, step_analysis, user_response) ==
    LET base ==
            [status |-> "success",
             step_completed |-> [number |-> current_step.step,
                                 name |-> current_step.name,
                                 user_input |-> user_input(user_response)],
             step_findings |-> Get(step_analysis, "findings", <<>>),
             step_analysis |-> Get(step_analysis, "analysis", NoArgs),
             progress |->
                [completed_steps |-> Len(sess.completed_steps),
                 total_steps |-> Len(ANALYSIS_STEPS),
                 progress_percent |->
                    (Len(sess.completed_steps) * 100) \div Len(ANALYSIS_STEPS)]]
    IN  IF sess.current_step < Len(ANALYSIS_STEPS)
        THEN base @@
             [next_step |-> [number |-> ANALYSIS_STEPS[sess.current_step].step,
                             name |-> ANALYSIS_STEPS[sess.current_step].name],
              next_questions |-> <<"questions", sess.current_step>>]
        ELSE base @@
             [completion |-> "Congratulations! We've completed all analysis steps."]

(* The success dict of lines 2724-2771, built from the updated session. *)
continue_result(sess, current_step, step_analysis, user_response) ==
    LET base ==
            [status |-> "success",
             step_completed |-> [number |-> current_step.step,
                                 name |-> current_step.name,
                                 user_input |-> user_input(user_response)],
             step_findings |-> Get(step_analysis, "findings", <<>>),
             step_analysis |-> Get(step_analysis, "analysis", NoArgs),
             progress |->
                [completed_steps |-> Len(sess.completed_steps),
                 total_steps |-> Len(ANALYSIS_STEPS),
                 progress_percent |->
                    (Len(sess.completed_steps) * 100) \div Len(ANALYSIS_STEPS)]]
    IN  IF sess.current_step <= Len(ANALYSIS_STEPS)
        THEN base @@
             [next_step |-> [number |-> ANALYSIS_STEPS[sess.current_step].step,
                             name |-> ANALYSIS_STEPS[sess.current_step].name],
              next_questions |-> <<"questions", sess.current_step>>]
        ELSE base @@
             [completion |-> "Congratulations! We've completed all analysis steps."]

(* Faulty variant: an absent or empty user_response is rejected before the *)
(* phase function runs.                                                    *)
run_step_requires_response(sess, args) ==
    LET user_response == Get(args, "user_response", StrVal(0))
        current_step_num == sess.current_step
        data == sess.data
        failed(e) == [error |-> <<"Failed to continue analysis: ", e>>]
    IN  IF user_response = StrVal(0)
        THEN Return(sess, [error |-> <<"user_response parameter is required">>], 0, 0)
        ELSE IF phase_raises(current_step_num, data)
        THEN Caught(sess, failed("AttributeError"), "AttributeError",
                    current_step_num, 0)
        ELSE LET current_step == ANALYSIS_STEPS[current_step_num]
                 step_analysis == step_analysis_of(current_step_num, data)
                 updated == update_session(sess, step_analysis, current_step)
             IN  IF user_input_raises(user_response)
                 THEN Caught(updated, failed("TypeError"), "TypeError",
                             current_step_num, 0)
                 ELSE Return(updated,
                             continue_result(updated, current_step,
                                             step_analysis, user_response),
                             current_step_num, 0)

(* Lines 2698-2771: the phase function of the current step runs, the      *)
(* session is updated, and only then is the reply built.                   *)
run_step(sess, args) ==
    LET user_response == Get(args, "user_response", StrVal(0))
        current_step_num == sess.current_step
        data == sess.data
        failed(e) == [error |-> <<"Failed to continue analysis: ", e>>]
    IN  IF phase_raises(current_step_num, data)
        THEN Caught(sess, failed("AttributeError"), "AttributeError",
                    current_step_num, 0)
        ELSE LET current_step == ANALYSIS_STEPS[current_step_num]
                 step_analysis == step_analysis_of(current_step_num, data)
                 updated == update_session(sess, step_analysis, current_step)
             IN  IF user_input_raises(user_response)
                 THEN Caught(updated, failed("TypeError"), "TypeError",
                             current_step_num, 0)
                 ELSE Return(updated,
                             continue_result(updated, current_step,
                                             step_analysis, user_response),
                             current_step_num, 0)

(* Faulty variant: no early return at the terminal state; the lookup              *)
(* ANALYSIS_STEPS[current_step_num - 1] then raises IndexError.            *)
continue_try_block_no_terminal(sess, args) ==
    IF sess.current_step > Len(ANALYSIS_STEPS)
    THEN Caught(sess, [error |-> <<"Failed to continue analysis: ", "IndexError">>],
                "IndexError", 0, 0)
    ELSE run_step(sess, args)

(* The try block of handle_continue_analysis, lines 2683-2774. *)
continue_try_block(sess, args) ==
    IF sess.current_step > Len(ANALYSIS_STEPS)
    THEN Return(sess, completed_result(sess), 0, 0)
    ELSE run_step(sess, args)

(* Faulty variant: no test for the idle session; ANALYSIS_STEPS[-1] is the last    *)
(* step, no phase branch matches 0 and the session is updated.             *)
handle_continue_analysis_no_idle_check(sess, args) ==
    IF sess.current_step = 0
    THEN Return(update_session(sess, NoArgs, ANALYSIS_STEPS[Len(ANALYSIS_STEPS)]),
                [status |-> "success"], 0, 0)
    ELSE continue_try_block(sess, args)

(* Faulty variant: the session is closed once the last phase is done. *)
handle_continue_analysis_closes_session(sess, args) ==
    IF sess.current_step = 0
    THEN Return(sess,
                [error |-> <<"No active analysis session. Please start with 'start_guided_analysis' first.">>],
                0, 0)
    ELSE IF sess.current_step > Len(ANALYSIS_STEPS)
    THEN [continue_try_block(sess, args) EXCEPT !.sess = InitialSession]
    ELSE continue_try_block(sess, args)

(* handle_continue_analysis, lines 2673-2774. *)
handle_continue_analysis(sess, args) ==
    IF sess.current_step = 0
    THEN Return(sess,
                [error |-> <<"No active analysis session. Please start with 'start_guided_analysis' first.">>],
                0, 0)
    ELSE continue_try_block(sess, args)

-----------------------------------------------------------------------------
(* The names of the Tool entries handle_list_tools returns, lines 160-770, *)
(* in the order of the list.                                               *)
ToolCatalog ==
    <<"discover_data", "optimize_memory", "dataset_overview",
      "numeric_exploration", "skewness_analysis", "kurtosis_analysis",
      "distribution_shape_analysis", "distribution_checks",
      "correlation_analysis", "scatter_plots", "temporal_analysis",
      "full_exploration_report", "explain_methodology",
      "optimized_analysis_workflow", "start_guided_analysis",
      "continue_analysis", "export_optimized_dataset",
      "export_vectorized_dataset", "advanced_feature_engineering",
      "performance_benchmarking", "ml_readiness_assessment",
      "executive_dashboard", "create_distribution_plots",
      "create_correlation_heatmap", "create_advanced_scatter_matrix",
      "create_time_series_plots", "create_outlier_visualizations",
      "create_business_intelligence_dashboard">>

CatalogNames == {ToolCatalog[i] : i \in 1..Len(ToolCatalog)}

(* The catalog entries whose inputSchema has no file_path property. *)
NoFileTools == {"explain_methodology", "continue_analysis"}

FilePathTools == CatalogNames \ NoFileTools

(* The names src/test_mcp_connection.py prints as available, lines 84-89. *)
AdvertisedTools ==
    {"dataset_overview", "numeric_exploration", "distribution_checks",
     "correlation_analysis", "scatter_plots", "temporal_analysis",
     "full_exploration_report", "optimize_memory", "discover_data",
     "explain_methodology", "start_guided_analysis", "continue_analysis"}

-----------------------------------------------------------------------------
(* The dispatcher.  DispatchNames are the names the if/elif chain of lines *)
(* 778-839 compares against; every one of them except                      *)
(* create_advanced_scatter_matrix names a handler function the module      *)
(* defines.                                                                *)
SessionTools == {"start_guided_analysis", "continue_analysis"}

StatelessTools ==
    {"discover_data", "optimize_memory", "dataset_overview",
     "numeric_exploration", "skewness_analysis", "kurtosis_analysis",
     "distribution_shape_analysis", "distribution_checks",
     "correlation_analysis", "scatter_plots", "temporal_analysis",
     "full_exploration_report", "optimized_analysis_workflow",
     "explain_methodology", "export_optimized_dataset",
     "export_vectorized_dataset", "advanced_feature_engineering",
     "performance_benchmarking", "ml_readiness_assessment",
     "executive_dashboard", "create_distribution_plots",
     "create_correlation_heatmap", "create_time_series_plots",
     "create_outlier_visualizations",
     "create_business_intelligence_dashboard"}

UndefinedHandlerTools == {"create_advanced_scatter_matrix"}

DispatchNames == SessionTools \cup StatelessTools \cup UndefinedHandlerTools

UnknownNames == {"nonexistent_tool", "create_presentation"}

(* handle_correlation_analysis, lines 1646-1744.  With a method outside    *)
(* the schema's enum neither matrix is computed and line 1677 reads the    *)
(* unbound pearson_corr.                                                   *)
Methods == {"pearson", "spearman", "both", "kendall"}

correlations_computed(method) ==
    (IF method \in {"pearson", "both"} THEN {"pearson_correlation"} ELSE {})
    \cup (IF method \in {"spearman", "both"} THEN {"spearman_correlation"} ELSE {})

(* Faulty variant: the number of numeric columns is not tested. *)
handle_correlation_analysis_no_column_test(sess, args) ==
    LET file_path == Get(args, "file_path", "")
        method == Get(args, "method", "both")
        failed(e) == [error |-> <<"Failed to perform correlation analysis: ", e>>]
    IN  IF file_path = JsonNull
        THEN Raise(sess, "TypeError", 0, 0)
        ELSE IF file_path \notin ExistingPaths
        THEN Return(sess, [error |-> <<"File not found: ", file_path>>], 0, 0)
        ELSE IF load_data_file_raises(file_path)
        THEN Caught(sess, failed(load_error(file_path)), load_error(file_path), 0, 1)
        ELSE IF method \notin {"pearson", "spearman", "both"}
        THEN Caught(sess, failed("UnboundLocalError"), "UnboundLocalError", 0, 1)
        ELSE Return(sess,
                    [status |-> "success", method_used |-> method,
                     variables_analyzed |-> NumericCols(file_path),
                     correlation_results |-> correlations_computed(method),
                     strong_correlations |-> file_path \in StrongCorrPaths],
                    0, 1)

handle_correlation_analysis(sess, args) ==
    LET file_path == Get(args, "file_path", "")
        method == Get(args, "method", "both")
        failed(e) == [error |-> <<"Failed to perform correlation analysis: ", e>>]
    IN  IF file_path = JsonNull
        THEN Raise(sess, "TypeError", 0, 0)
        ELSE IF file_path \notin ExistingPaths
        THEN Return(sess, [error |-> <<"File not found: ", file_path>>], 0, 0)
        ELSE IF load_data_file_raises(file_path)
        THEN Caught(sess, failed(load_error(file_path)), load_error(file_path), 0, 1)
        ELSE IF NumericCols(file_path) < 2
        THEN Return(sess,
                    [error |-> <<"Need at least 2 numeric columns for correlation analysis">>],
                    0, 1)
        ELSE IF method \notin {"pearson", "spearman", "both"}
        THEN Caught(sess, failed("UnboundLocalError"), "UnboundLocalError", 0, 1)
        ELSE Return(sess,
                    [status |-> "success", method_used |-> method,
                     variables_analyzed |-> NumericCols(file_path),
                     correlation_results |-> correlations_computed(method),
                     strong_correlations |-> file_path \in StrongCorrPaths],
                    0, 1)

(* handle_scatter_plots, lines 1746-1848: the two variables are tested     *)
(* after the path and before the load.                                     *)
handle_scatter_plots(sess, args) ==
    LET file_path == Get(args, "file_path", "")
        x_variable == Get(args, "x_variable", "")
        y_variable == Get(args, "y_variable", "")
        failed(e) == [error |-> <<"Failed to create scatter plot analysis: ", e>>]
    IN  IF file_path = JsonNull
        THEN Raise(sess, "TypeError", 0, 0)
        ELSE IF file_path \notin ExistingPaths
        THEN Return(sess, [error |-> <<"File not found: ", file_path>>], 0, 0)
        ELSE IF x_variable = "" \/ y_variable = ""
        THEN Return(sess, [error |-> <<"Both x_variable and y_variable are required">>],
                    0, 0)
        ELSE IF load_data_file_raises(file_path)
        THEN Caught(sess, failed(load_error(file_path)), load_error(file_path), 0, 1)
        ELSE IF x_variable \notin Columns(file_path)
        THEN Return(sess, [error |-> <<"Column not found in dataset", x_variable>>], 0, 1)
        ELSE IF y_variable \notin Columns(file_path)
        THEN Return(sess, [error |-> <<"Column not found in dataset", y_variable>>], 0, 1)
        ELSE Return(sess,
                    [status |-> "success",
                     plot_specification |-> <<file_path, x_variable, y_variable>>],
                    0, 1)

(* handle_temporal_analysis, lines 1850-1984: date_column is tested after  *)
(* the path and before the load; the except clause of lines 1872-1873      *)
(* answers a failed pd.to_datetime without the exception's message.        *)
handle_temporal_analysis(sess, args) ==
    LET file_path == Get(args, "file_path", "")
        date_column == Get(args, "date_column", "")
        failed(e) == [error |-> <<"Failed to perform temporal analysis: ", e>>]
    IN  IF file_path = JsonNull
        THEN Raise(sess, "TypeError", 0, 0)
        ELSE IF file_path \notin ExistingPaths
        THEN Return(sess, [error |-> <<"File not found: ", file_path>>], 0, 0)
        ELSE IF date_column = ""
        THEN Return(sess, [error |-> <<"date_column parameter is required">>], 0, 0)
        ELSE IF load_data_file_raises(file_path)
        THEN Caught(sess, failed(load_error(file_path)), load_error(file_path), 0, 1)
        ELSE IF date_column \notin Columns(file_path)
        THEN Return(sess, [error |-> <<"Date column not found in dataset", date_column>>],
                    0, 1)
        ELSE IF date_column \notin DateColumns(file_path)
        THEN Caught(sess,
                    [error |-> <<"Could not convert to datetime format", date_column>>],
                    "ValueError", 0, 1)
        ELSE Return(sess,
                    [status |-> "success", date_column |-> date_column,
                     variables_analyzed |-> NumericCols(file_path)],
                    0, 1)

(* The frame every handler other than the two session handlers shares      *)
(* (handle_discover_data, lines 2408-2444, is the shortest instance): the  *)
(* path is tested with Path(file_path).exists() outside the try block, the *)
(* file is loaded inside it and an exception becomes an error dict.  None  *)
(* names analysis_session.  handle_explain_methodology (2498-2542) takes   *)
(* no file.  handle_distribution_checks returns value_counts().to_dict()   *)
(* of the object columns unconverted (line 1574), so its keys are the      *)
(* column's values.                                                        *)
(*                                                                         *)
(* Faulty variant first: the loaded table is kept in the session.          *)
handle_stateless_tool_caches_data(name, sess, args) ==
    LET file_path == Get(args, "file_path", "")
    IN  IF name = "explain_methodology"
        THEN Return(sess, [status |-> "success", topic |-> "general"], 0, 0)
        ELSE IF file_path = JsonNull
        THEN Raise(sess, "TypeError", 0, 0)
        ELSE IF file_path \notin ExistingPaths
        THEN Return(sess, [error |-> <<"File not found: ", file_path>>], 0, 0)
        ELSE IF load_data_file_raises(file_path)
        THEN Caught(sess,
                    [error |-> <<"Failed: ", name, load_error(file_path)>>],
                    load_error(file_path), 0, 1)
        ELSE Return([sess EXCEPT !.data = load_data_file(file_path),
                                 !.file_path = file_path],
                    [status |-> "success", tool_result |-> <<name, file_path>>,
                     value_keys |-> IF name = "distribution_checks"
                                       /\ file_path \in ObjectColPaths
                                    THEN value_key_type(file_path)
                                    ELSE "str"],
                    0, 1)

handle_stateless_tool(name, sess, args) ==
    LET file_path == Get(args, "file_path", "")
    IN  IF name = "explain_methodology"
        THEN Return(sess, [status |-> "success", topic |-> "general"], 0, 0)
        ELSE IF file_path = JsonNull
        THEN Raise(sess, "TypeError", 0, 0)
        ELSE IF file_path \notin ExistingPaths
        THEN Return(sess, [error |-> <<"File not found: ", file_path>>], 0, 0)
        ELSE IF load_data_file_raises(file_path)
        THEN Caught(sess,
                    [error |-> <<"Failed: ", name, load_error(file_path)>>],
                    load_error(file_path), 0, 1)
        ELSE Return(sess,
                    [status |-> "success", tool_result |-> <<name, file_path>>,
                     value_keys |-> IF name = "distribution_checks"
                                       /\ file_path \in ObjectColPaths
                                    THEN value_key_type(file_path)
                                    ELSE "str"],
                    0, 1)

(* json.dumps(result, indent=2, default=str), line 843: default= converts  *)
(* values, not keys, so a dict key that is not str, int, float, bool or    *)
(* None raises TypeError.                                                  *)
DumpsError == "TypeError: keys must be str, int, float, bool or None"

json_dumps_raises(result) ==
    \/ Get(result, "value_keys", "str") # "str"
    \/ Get(Get(result, "step_analysis", NoArgs), "segment_keys", "str") # "str"

(* The branch of the if/elif chain taken for a name: the handler it calls, *)
(* or "none" for the final else.                                           *)
dispatch_branch(name) ==
    IF name \in DispatchNames THEN name ELSE "none"

(* Faulty variant: the chain has no final else, so result is unbound for a name    *)
(* no branch matches.                                                      *)
run_branch_no_else(name, sess, args) ==
    CASE name = "start_guided_analysis" -> handle_start_guided_analysis(sess, args)
      [] name = "continue_analysis" -> handle_continue_analysis(sess, args)
      [] name = "correlation_analysis" -> handle_correlation_analysis(sess, args)
      [] name = "scatter_plots" -> handle_scatter_plots(sess, args)
      [] name = "temporal_analysis" -> handle_temporal_analysis(sess, args)
      [] name \in UndefinedHandlerTools -> Raise(sess, "NameError", 0, 0)
      [] name \in StatelessTools -> handle_stateless_tool(name, sess, args)
      [] OTHER -> Raise(sess, "UnboundLocalError", 0, 0)

(* The call inside the try block of lines 777-841. *)
run_branch(name, sess, args) ==
    CASE name = "start_guided_analysis" -> handle_start_guided_analysis(sess, args)
      [] name = "continue_analysis" -> handle_continue_analysis(sess, args)
      [] name = "correlation_analysis" -> handle_correlation_analysis(sess, args)
      [] name = "scatter_plots" -> handle_scatter_plots(sess, args)
      [] name = "temporal_analysis" -> handle_temporal_analysis(sess, args)
      [] name \in UndefinedHandlerTools -> Raise(sess, "NameError", 0, 0)
      [] name \in StatelessTools -> handle_stateless_tool(name, sess, args)
      [] OTHER -> Return(sess, [error |-> <<"Unknown tool: ", name>>], 0, 0)

(* The try block of lines 777-843: the handler's dict once json.dumps has  *)
(* encoded it, or the exception the handler or json.dumps raised.          *)
dumps(out) ==
    IF ~out.raised /\ json_dumps_raises(out.value)
    THEN Raise(out.sess, DumpsError, out.phase, out.loads)
    ELSE out

try_block(name, sess, args) == dumps(run_branch(name, sess, args))

(* The reply of handle_call_tool for the outcome of its try block: the     *)
(* except clause of lines 845-851 answers an exception that reached it.    *)
call_tool_reply(name, out, error_result) ==
    [sess |-> out.sess,
     response |-> IF out.raised THEN error_result ELSE out.value,
     handler |-> IF dispatch_branch(name) \in UndefinedHandlerTools
                 THEN "none" ELSE dispatch_branch(name),
     phase |-> out.phase,
     loads |-> out.loads,
     exc |-> out.exc,
     escaped |-> out.raised]

error_result(name, out) ==
    [error |-> <<"Tool execution failed: ", out.exc>>, tool |-> name]

(* Faulty variant: only the handler call is guarded; json.dumps runs after the     *)
(* try statement.                                                          *)
handle_call_tool_dumps_unguarded(name, sess, args) ==
    call_tool_reply(name,
                    IF /\ ~run_branch(name, sess, args).raised
                       /\ json_dumps_raises(run_branch(name, sess, args).value)
                    THEN [run_branch(name, sess, args) EXCEPT
                             !.value = [unhandled_exception |-> "TypeError"]]
                    ELSE run_branch(name, sess, args),
                    error_result(name, run_branch(name, sess, args)))

(* Faulty variant: the error dict of the except clause has no "tool" key. *)
handle_call_tool_no_tool_key(name, sess, args) ==
    call_tool_reply(name, try_block(name, sess, args),
                    [error |-> <<"Tool execution failed: ",
                                 try_block(name, sess, args).exc>>])

(* handle_call_tool, lines 773-851: the session after the request, the     *)
(* dict whose JSON text is returned, and what ran: exc is the exception    *)
(* raised while the request was served and escaped tells whether it reached *)
(* the except clause of lines 845-851.  An exception that left the         *)
(* function would be the reply [unhandled_exception |-> e].                *)
handle_call_tool(name, sess, args) ==
    call_tool_reply(name, try_block(name, sess, args),
                    error_result(name, try_block(name, sess, args)))

-----------------------------------------------------------------------------
StartArgs ==
    {NoArgs}
    \cup {[file_path |-> p] : p \in PathArgs}
    \cup {[file_path |-> p, analysis_goal |-> g] : p \in PathArgs, g \in GoalArgs}

ContinueArgs ==
    {NoArgs}
    \cup {[user_response |-> u] : u \in Responses}
    \cup {[user_response |-> StrVal(12), focus_area |-> StrVal(8)]}

StatelessArgs == {NoArgs} \cup {[file_path |-> p] : p \in PathArgs}

(* Arguments beyond file_path that a tool's schema declares. *)
CorrelationArgs ==
    {[file_path |-> p, method |-> m] :
        p \in {"missing.csv", "sales.csv", "survey.csv"}, m \in Methods}

ScatterArgs ==
    {[file_path |-> p, x_variable |-> "revenue", y_variable |-> y] :
        p \in {"missing.csv", "sales.csv", "survey.csv"}, y \in {"cost", ""}}

TemporalArgs ==
    {[file_path |-> p, date_column |-> c] :
        p \in {"missing.csv", "sales.csv", "events.parquet"},
        c \in {"region", "when"}}

ToolArgs(name) ==
    StatelessArgs
    \cup (CASE name = "correlation_analysis" -> CorrelationArgs
           [] name = "scatter_plots" -> ScatterArgs
           [] name = "temporal_analysis" -> TemporalArgs
           [] OTHER -> {})

Succeeded(resp) == Get(resp, "status", "none") = "success"

NoException == [type |-> "none", escaped |-> FALSE]

NoSkew == [value |-> 0, interpretation |-> "none", symmetry |-> "none",
           skewness_value |-> 0, summary |-> {}]

(* No reply yet from a statistics tool on the column. *)
NoReply == [status |-> "none", error |-> "none", analysed |-> FALSE, outlier_count |-> 0]

NoColumn == [cells |-> <<>>, numeric_exploration |-> NoReply,
             exploratory_analysis |-> NoReply]

(* No reply yet from dataset_overview.  A quality score is a float rounded *)
(* to one decimal, held in tenths; nan tells float("nan").                 *)
NoOverview ==
    [rows |-> 0, columns |-> 0, missing |-> 0,
     reply |-> [status |-> "none", rows |-> 0, columns |-> 0,
                overall_quality_score |-> [nan |-> FALSE, tenths |-> 0],
                total_missing_values |-> 0]]

(* A Python object: its type, and for a container its items (and, for a   *)
(* dict, the type of each key).  "nan" is float("nan"), "np.nan" a numpy   *)
(* float scalar holding NaN.                                               *)
Scalar(kind) == [kind |-> kind, keys |-> <<>>, items |-> <<>>]

NoJson == [obj |-> Scalar("None"), result |-> Scalar("None"), called |-> FALSE]

case_vars == <<skew_case, column_case, overview_case, json_case>>

(* The requests in progress.  server.run (line 2982) starts one task per   *)
(* request on the event loop of asyncio.run (line 4383); a task executes   *)
(* until it finishes or suspends at an await.  pc is the statement the     *)
(* task executes next; entry is the session it found, seen the session as  *)
(* its last statement left it; current_step_num, data and step_analysis    *)
(* are the handler's locals.                                               *)
Tasks == {1, 2}

IdleTask ==
    [pc |-> "idle", name |-> "none", args |-> NoArgs, entry |-> InitialSession,
     seen |-> InitialSession, current_step_num |-> 0, data |-> <<>>,
     step_analysis |-> NoArgs]

NoTasks == [tasks |-> [t \in Tasks |-> IdleTask], running |-> 0]

(* The server keeps nothing per client (lines 90-99 are the only state);   *)
(* this record is the history of who did what.  owner is the client whose  *)
(* start_guided_analysis last replaced the session; pending holds while    *)
(* the last request on the session was a successful start of client B that *)
(* found a session of A at a step > 1; displaced tells that the request    *)
(* just served found pending set; b_path and b_goal are the arguments of   *)
(* B's last successful start.                                              *)
NoClients ==
    [sender |-> "none", owner |-> "none", pending |-> FALSE, displaced |-> FALSE,
     b_path |-> "None", b_goal |-> "None"]

Init ==
    /\ analysis_session = InitialSession
    /\ prev_session = InitialSession
    /\ call = [name |-> "none", args |-> NoArgs]
    /\ response = NoArgs
    /\ handler_run = "none"
    /\ phase_run = 0
    /\ loads = 0
    /\ succ_count = 0
    /\ fresh = FALSE
    /\ exception = NoException
    /\ clients = NoClients
    /\ loop = NoTasks
    /\ skew_case = NoSkew
    /\ column_case = NoColumn
    /\ overview_case = NoOverview
    /\ json_case = NoJson

Waiting == call.name = "none"

(* One request served by handle_call_tool from start to finish. *)
Serve(name, args) ==
    /\ Waiting
    /\ \E r \in {handle_call_tool(name, analysis_session, args)} :
        /\ analysis_session' = r.sess
        /\ prev_session' = analysis_session
        /\ call' = [name |-> name, args |-> args]
        /\ response' = r.response
        /\ handler_run' = r.handler
        /\ phase_run' = r.phase
        /\ loads' = r.loads
        /\ exception' = [type |-> r.exc, escaped |-> r.escaped]
        /\ fresh' = CASE name = "start_guided_analysis" -> Succeeded(r.response)
                      [] OTHER -> fresh
        /\ succ_count' =
              CASE name = "start_guided_analysis" -> 0
                [] name = "continue_analysis" /\ fresh /\ Succeeded(r.response)
                     -> succ_count + 1
                [] OTHER -> succ_count

StartGuidedAnalysis ==
    /\ \E args \in StartArgs : Serve("start_guided_analysis", args)
    /\ UNCHANGED <<clients, loop, case_vars>>

ContinueAnalysis ==
    /\ \E args \in ContinueArgs : Serve("continue_analysis", args)
    /\ UNCHANGED <<clients, loop, case_vars>>

StatelessTool ==
    /\ \E name \in StatelessTools : \E args \in ToolArgs(name) : Serve(name, args)
    /\ UNCHANGED <<clients, loop, case_vars>>

UndefinedHandlerTool ==
    /\ \E name \in UndefinedHandlerTools, args \in StatelessArgs : Serve(name, args)
    /\ UNCHANGED <<clients, loop, case_vars>>

UnknownTool ==
    /\ \E name \in UnknownNames, args \in StatelessArgs : Serve(name, args)
    /\ UNCHANGED <<clients, loop, case_vars>>

(* The reply has been handed to the server loop (server.run, line 2982),   *)
(* which waits for the next request; the session stays as the request left *)
(* it.                                                                     *)
AwaitRequest ==
    /\ ~Waiting
    /\ call' = [name |-> "none", args |-> NoArgs]
    /\ response' = NoArgs
    /\ handler_run' = "none"
    /\ phase_run' = 0
    /\ loads' = 0
    /\ exception' = NoException
    /\ prev_session' = analysis_session
    /\ UNCHANGED <<analysis_session, succ_count, fresh, clients, loop, case_vars>>

Next ==
    \/ StartGuidedAnalysis
    \/ ContinueAnalysis
    \/ StatelessTool
    \/ UndefinedHandlerTool
    \/ UnknownTool
    \/ AwaitRequest

Spec == Init /\ [][Next]_vars

-----------------------------------------------------------------------------
(* Two clients of the one server process.  The requests of both reach the  *)
(* same handle_call_tool and the same analysis_session; the server loop    *)
(* serves them one at a time.                                              *)
ClientAStartArgs == {[file_path |-> "sales.csv"]}

ClientBStartArgs ==
    {[file_path |-> p, analysis_goal |-> g] :
        p \in {"survey.csv", "events.parquet", "empty.csv", "missing.csv"},
        g \in GoalArgs}

ClientContinueArgs ==
    {NoArgs, [user_response |-> StrVal(12)], [user_response |-> NullVal]}

ClientAStart ==
    /\ UNCHANGED <<loop, case_vars>>
    /\ \E args \in ClientAStartArgs : Serve("start_guided_analysis", args)
    /\ clients' = [clients EXCEPT
                      !.sender = "A",
                      !.owner = IF analysis_session' # analysis_session
                                THEN "A" ELSE @,
                      !.pending = FALSE,
                      !.displaced = clients.pending]

ClientAContinue ==
    /\ UNCHANGED <<loop, case_vars>>
    /\ \E args \in ClientContinueArgs : Serve("continue_analysis", args)
    /\ clients' = [clients EXCEPT
                      !.sender = "A",
                      !.pending = FALSE,
                      !.displaced = clients.pending]

ClientBStart ==
    /\ UNCHANGED <<loop, case_vars>>
    /\ \E args \in ClientBStartArgs : Serve("start_guided_analysis", args)
    /\ clients' = [clients EXCEPT
                      !.sender = "B",
                      !.owner = IF analysis_session' # analysis_session
                                THEN "B" ELSE @,
                      !.pending = /\ Succeeded(response')
                                  /\ clients.owner = "A"
                                  /\ analysis_session.current_step > 1,
                      !.displaced = FALSE,
                      !.b_path = IF Succeeded(response')
                                 THEN call'.args.file_path ELSE @,
                      !.b_goal = IF Succeeded(response')
                                 THEN call'.args.analysis_goal ELSE @]

ClientBContinue ==
    /\ UNCHANGED <<loop, case_vars>>
    /\ \E args \in ClientContinueArgs : Serve("continue_analysis", args)
    /\ clients' = [clients EXCEPT
                      !.sender = "B", !.pending = FALSE, !.displaced = FALSE]

NextClients ==
    \/ ClientAStart
    \/ ClientAContinue
    \/ ClientBStart
    \/ ClientBContinue
    \/ AwaitRequest

SpecClients == Init /\ [][NextClients]_vars

-----------------------------------------------------------------------------
(* The two session handlers statement by statement, as tasks of the event  *)
(* loop.  A task that is executing keeps the loop until it finishes or     *)
(* suspends; another task runs only then.                                  *)
StepStartArgs ==
    {[file_path |-> p] : p \in {"missing.csv", "empty.csv", "sales.csv", "survey.csv"}}

StepContinueArgs == {NoArgs, [user_response |-> StrVal(12)]}

(* Faulty variant: the awaited phase function yields to the event loop. *)
suspends_at_phase_call(pc) == pc = "phase"

(* Whether the statement at pc gives the loop to another task.  The only   *)
(* awaits of the two handlers are the calls of the phase functions, lines  *)
(* 2706-2716, and the phase functions (2776-2969) contain no await: the    *)
(* call runs to its return without suspending.                             *)
suspends(pc) == FALSE

Scheduled(t) == loop.running \in {0, t}

SetTask(t, task, running) ==
    loop' = [tasks |-> [loop.tasks EXCEPT ![t] = task], running |-> running]

request_vars ==
    <<prev_session, call, response, handler_run, phase_run, loads, succ_count,
      fresh, exception, clients, case_vars>>

(* A request arrives and its task is created. *)
Receive(t) ==
    /\ loop.tasks[t].pc = "idle"
    /\ \E name \in SessionTools :
         \E args \in (IF name = "start_guided_analysis"
                       THEN StepStartArgs ELSE StepContinueArgs) :
            SetTask(t, [IdleTask EXCEPT !.pc = "ready", !.name = name,
                                        !.args = args],
                    loop.running)
    /\ UNCHANGED <<analysis_session, request_vars>>

(* Lines 2549-2559: the path test and the first load. *)
StartBegin(t) ==
    LET k == loop.tasks[t]
        file_path == Get(k.args, "file_path", "")
    IN  /\ k.pc = "ready" /\ k.name = "start_guided_analysis"
        /\ Scheduled(t)
        /\ SetTask(t, [k EXCEPT !.entry = analysis_session,
                                !.seen = analysis_session,
                                !.pc = IF file_path \notin ExistingPaths
                                          \/ load_data_file_raises(file_path)
                                       THEN "done" ELSE "reset"],
                   t)
        /\ UNCHANGED <<analysis_session, request_vars>>

(* Lines 2561-2570. *)
StartReset(t) ==
    LET k == loop.tasks[t]
        file_path == Get(k.args, "file_path", "")
        analysis_goal == Get(k.args, "analysis_goal", "comprehensive exploration")
    IN  /\ k.pc = "reset"
        /\ Scheduled(t)
        /\ analysis_session' = reset_session(file_path, analysis_goal)
        /\ SetTask(t, [k EXCEPT !.seen = analysis_session', !.pc = "optimize"],
                   IF suspends("reset") THEN 0 ELSE t)
        /\ UNCHANGED request_vars

(* Lines 2572-2602. *)
StartOptimize(t) ==
    LET k == loop.tasks[t]
        file_path == Get(k.args, "file_path", "")
        analysis_goal == Get(k.args, "analysis_goal", "comprehensive exploration")
    IN  /\ k.pc = "optimize"
        /\ Scheduled(t)
        /\ analysis_session' = IF narrowing_raises(file_path)
                                THEN analysis_session
                                ELSE stored_session(file_path, analysis_goal)
        /\ SetTask(t, [k EXCEPT !.seen = analysis_session',
                                !.pc = IF narrowing_raises(file_path)
                                          \/ labels_raise(file_path)
                                       THEN "done" ELSE "findings"],
                   IF suspends("optimize") THEN 0 ELSE t)
        /\ UNCHANGED request_vars

(* Lines 2608-2641. *)
StartFindings(t) ==
    LET k == loop.tasks[t]
        file_path == Get(k.args, "file_path", "")
        analysis_goal == Get(k.args, "analysis_goal", "comprehensive exploration")
    IN  /\ k.pc = "findings"
        /\ Scheduled(t)
        /\ analysis_session' =
              [analysis_session EXCEPT
                  !.findings = initial_findings(file_path, analysis_goal)]
        /\ SetTask(t, [k EXCEPT !.seen = analysis_session', !.pc = "done"],
                   IF suspends("findings") THEN 0 ELSE t)
        /\ UNCHANGED request_vars

(* Lines 2677-2678. *)
ContinueBegin(t) ==
    LET k == loop.tasks[t]
    IN  /\ k.pc = "ready" /\ k.name = "continue_analysis"
        /\ Scheduled(t)
        /\ SetTask(t, [k EXCEPT !.entry = analysis_session,
                                !.seen = analysis_session,
                                !.pc = IF analysis_session.current_step = 0
                                       THEN "done" ELSE "read"],
                   t)
        /\ UNCHANGED <<analysis_session, request_vars>>

(* Lines 2684-2698. *)
ContinueRead(t) ==
    LET k == loop.tasks[t]
    IN  /\ k.pc = "read"
        /\ Scheduled(t)
        /\ SetTask(t, [k EXCEPT !.data = analysis_session.data,
                                !.current_step_num = analysis_session.current_step,
                                !.pc = IF analysis_session.current_step
                                            > Len(ANALYSIS_STEPS)
                                       THEN "done" ELSE "phase"],
                   IF suspends("read") THEN 0 ELSE t)
        /\ UNCHANGED <<analysis_session, request_vars>>

(* Lines 2704-2717. *)
ContinuePhase(t) ==
    LET k == loop.tasks[t]
    IN  /\ k.pc = "phase"
        /\ Scheduled(t)
        /\ IF phase_raises(k.current_step_num, k.data)
           THEN SetTask(t, [k EXCEPT !.pc = "done"], t)
           ELSE SetTask(t, [k EXCEPT
                               !.step_analysis =
                                   step_analysis_of(k.current_step_num, k.data),
                               !.pc = "extend"],
                        IF suspends("phase") THEN 0 ELSE t)
        /\ UNCHANGED <<analysis_session, request_vars>>

(* Line 2720. *)
ContinueExtend(t) ==
    LET k == loop.tasks[t]
    IN  /\ k.pc = "extend"
        /\ Scheduled(t)
        /\ analysis_session' =
              [analysis_session EXCEPT
                  !.findings = @ \o Get(k.step_analysis, "findings", <<>>)]
        /\ SetTask(t, [k EXCEPT !.seen = analysis_session', !.pc = "append"],
                   IF suspends("extend") THEN 0 ELSE t)
        /\ UNCHANGED request_vars

(* Line 2721. *)
ContinueAppend(t) ==
    LET k == loop.tasks[t]
    IN  /\ k.pc = "append"
        /\ Scheduled(t)
        /\ analysis_session' =
              [analysis_session EXCEPT
                  !.completed_steps =
                      Append(@, ANALYSIS_STEPS[k.current_step_num].name)]
        /\ SetTask(t, [k EXCEPT !.seen = analysis_session', !.pc = "increment"],
                   IF suspends("append") THEN 0 ELSE t)
        /\ UNCHANGED request_vars

(* Line 2722. *)
ContinueIncrement(t) ==
    LET k == loop.tasks[t]
    IN  /\ k.pc = "increment"
        /\ Scheduled(t)
        /\ analysis_session' = [analysis_session EXCEPT !.current_step = @ + 1]
        /\ SetTask(t, [k EXCEPT !.seen = analysis_session', !.pc = "done"],
                   IF suspends("increment") THEN 0 ELSE t)
        /\ UNCHANGED request_vars

(* The handler returns and the task ends. *)
Reply(t) ==
    /\ loop.tasks[t].pc = "done"
    /\ Scheduled(t)
    /\ SetTask(t, IdleTask, 0)
    /\ UNCHANGED <<analysis_session, request_vars>>

NextSteps ==
    \E t \in Tasks :
        \/ Receive(t)
        \/ StartBegin(t)
        \/ StartReset(t)
        \/ StartOptimize(t)
        \/ StartFindings(t)
        \/ ContinueBegin(t)
        \/ ContinueRead(t)
        \/ ContinuePhase(t)
        \/ ContinueExtend(t)
        \/ ContinueAppend(t)
        \/ ContinueIncrement(t)
        \/ Reply(t)

SpecSteps == Init /\ [][NextSteps]_vars

-----------------------------------------------------------------------------
(* The skewness labels.  A skewness value is represented in units of       *)
(* 0.00001, so the thresholds 0.5 and 1.0 of the source are 50000 and      *)
(* 100000, and the values considered lie within MaxSkew units of 0, of a   *)
(* threshold or of 1.5, on either side of zero.                            *)
SkewScale == 100000

HalfSkew == SkewScale \div 2

OneSkew == SkewScale

MaxSkew == 12

SkewValues ==
    {sign * (c + d) : sign \in {0 - 1, 1}, c \in {0, HalfSkew, OneSkew, 3 * HalfSkew},
                      d \in (0 - MaxSkew)..MaxSkew}

abs(x) == IF x < 0 THEN 0 - x ELSE x

(* Faulty variant: the second threshold is compared with >=. *)
interpretation_distribution_inclusive(skewness) ==
    IF abs(skewness) > OneSkew THEN "Highly skewed"
    ELSE IF abs(skewness) >= HalfSkew THEN "Moderately skewed"
    ELSE "Approximately normal"

(* interpretation["distribution"] of handle_numeric_exploration, line 985. *)
interpretation_distribution(skewness) ==
    IF abs(skewness) > OneSkew THEN "Highly skewed"
    ELSE IF abs(skewness) > HalfSkew THEN "Moderately skewed"
    ELSE "Approximately normal"

(* symmetry of handle_skewness_analysis, lines 1068-1076. *)
symmetry_assessment(skew_value) ==
    IF abs(skew_value) < HalfSkew THEN "approximately symmetric"
    ELSE IF abs(skew_value) < OneSkew THEN "moderately skewed"
    ELSE "highly skewed"

(* "skewness_value": round(skew_value, 4), line 1120.  The source rounds   *)
(* a binary float: a value exactly halfway between two multiples of        *)
(* 0.0001 may sit on either side, so both neighbours are possible there.   *)
skewness_value(skew_value) ==
    LET unit == SkewScale \div 10000
        q == skew_value \div unit
        r == skew_value % unit
    IN  IF 2 * r < unit THEN {unit * q}
        ELSE IF 2 * r > unit THEN {unit * (q + 1)}
        ELSE {unit * q, unit * (q + 1)}

(* The lists of lines 1135-1140 the column is put in, which the counts of  *)
(* summary_statistics (1154-1158) measure; they test the rounded value.    *)
summary_statistics(rounded) ==
    {c \in {"highly_skewed"} : abs(rounded) > OneSkew}
    \cup {c \in {"moderately_skewed"} :
              HalfSkew <= abs(rounded) /\ abs(rounded) <= OneSkew}
    \cup {c \in {"symmetric"} : abs(rounded) < HalfSkew}

InitSkew ==
    /\ analysis_session = InitialSession
    /\ prev_session = InitialSession
    /\ call = [name |-> "none", args |-> NoArgs]
    /\ response = NoArgs
    /\ handler_run = "none"
    /\ phase_run = 0
    /\ loads = 0
    /\ succ_count = 0
    /\ fresh = FALSE
    /\ exception = NoException
    /\ clients = NoClients
    /\ loop = NoTasks
    /\ column_case = NoColumn
    /\ overview_case = NoOverview
    /\ json_case = NoJson
    /\ \E v \in SkewValues : skew_case = [NoSkew EXCEPT !.value = v]

session_vars ==
    <<analysis_session, prev_session, call, response, handler_run, phase_run,
      loads, succ_count, fresh, exception, clients, loop>>

NumericExploration ==
    /\ skew_case.interpretation = "none"
    /\ skew_case' = [skew_case EXCEPT
                        !.interpretation = interpretation_distribution(skew_case.value)]
    /\ UNCHANGED <<session_vars, column_case, overview_case, json_case>>

SkewnessAnalysis ==
    /\ skew_case.symmetry = "none"
    /\ \E rounded \in skewness_value(skew_case.value) :
          skew_case' = [skew_case EXCEPT
                           !.symmetry = symmetry_assessment(skew_case.value),
                           !.skewness_value = rounded,
                           !.summary = summary_statistics(rounded)]
    /\ UNCHANGED <<session_vars, column_case, overview_case, json_case>>

NextSkew == NumericExploration \/ SkewnessAnalysis

SpecSkew == InitSkew /\ [][NextSkew]_vars

-----------------------------------------------------------------------------
(* The statistics of one numeric column.  A cell is a number or missing    *)
(* (NaN); the numbers are small integers, so the quartiles are multiples   *)
(* of 1/4, the IQR bounds multiples of 1/8, and the float arithmetic of    *)
(* the source is exact on them.                                            *)
MaxLen == 5

MaxValue == 3

ColumnValues ==
    LET NaN == [na |-> TRUE, v |-> 0]
        Cells == {NaN} \cup [na : {FALSE}, v : 0..MaxValue]
    IN  UNION {[1..n -> Cells] : n \in 1..MaxLen}

(* Series.dropna(): the values of the non-missing cells, in order. *)
RECURSIVE dropna(_)
dropna(cells) ==
    IF cells = <<>> THEN <<>>
    ELSE IF Head(cells).na THEN dropna(Tail(cells))
    ELSE <<Head(cells).v>> \o dropna(Tail(cells))

RECURSIVE insert(_, _)
insert(x, s) ==
    IF s = <<>> THEN <<x>>
    ELSE IF x <= Head(s) THEN <<x>> \o s
    ELSE <<Head(s)>> \o insert(x, Tail(s))

(* The ascending order Series.quantile works on. *)
RECURSIVE sort_values(_)
sort_values(s) == IF s = <<>> THEN <<>> ELSE insert(Head(s), sort_values(Tail(s)))

RECURSIVE Sum(_)
Sum(s) == IF s = <<>> THEN 0 ELSE Head(s) + Sum(Tail(s))

(* Four times Series.quantile(k/4) of a non-empty series: pandas           *)
(* interpolates linearly at position (n - 1) * k/4 of the sorted values.   *)
quantile(series, k) ==
    LET x == sort_values(series)
        pos == (Len(x) - 1) * k
        lo == (pos \div 4) + 1
        r == pos % 4
    IN  IF r = 0 THEN 4 * x[lo]
        ELSE 4 * x[lo] + r * (x[lo + 1] - x[lo])

(* Faulty variant: a value equal to a bound is an outlier too. *)
is_outlier_inclusive(v, series) ==
    LET Q1 == quantile(series, 1)
        Q3 == quantile(series, 3)
        IQR == Q3 - Q1
        lower_bound == 2 * Q1 - 3 * IQR
        upper_bound == 2 * Q3 + 3 * IQR
    IN  8 * v <= lower_bound \/ 8 * v >= upper_bound

(* Lines 963-969 for one value v of the series: Q1, Q3 and IQR are held as *)
(* four times, lower_bound = Q1 - 1.5 * IQR and upper_bound = Q3 + 1.5 *   *)
(* IQR as eight times their value, and the test is                         *)
(* (series < lower_bound) | (series > upper_bound).                        *)
is_outlier(v, series) ==
    LET Q1 == quantile(series, 1)
        Q3 == quantile(series, 3)
        IQR == Q3 - Q1
        lower_bound == 2 * Q1 - 3 * IQR
        upper_bound == 2 * Q3 + 3 * IQR
    IN  8 * v < lower_bound \/ 8 * v > upper_bound

RECURSIVE count_outliers(_, _)
count_outliers(values, series) ==
    IF values = <<>> THEN 0
    ELSE (IF is_outlier(Head(values), series) THEN 1 ELSE 0)
         + count_outliers(Tail(values), series)

(* handle_numeric_exploration on a dataset whose only numeric column is    *)
(* cells: the column is skipped when it has no value; otherwise the        *)
(* outliers are counted, and stats["std"] / stats["mean"] raises           *)
(* ZeroDivisionError when the mean is 0.0, which the except clause turns   *)
(* into an error payload.                                                  *)
numeric_exploration_column(cells) ==
    LET series == dropna(cells)
    IN  IF series = <<>> THEN [NoReply EXCEPT !.status = "success"]
        ELSE IF Sum(series) = 0
        THEN [NoReply EXCEPT !.status = "error", !.error = "float division by zero"]
        ELSE [status |-> "success", error |-> "none", analysed |-> TRUE,
              outlier_count |-> count_outliers(series, series)]

(* stats["outliers"] of perform_exploratory_analysis: the column is not    *)
(* stripped of its missing cells; Series.quantile skips them and every     *)
(* comparison with NaN is False.                                           *)
exploratory_analysis_column(cells) ==
    LET series == dropna(cells)
    IN  [status |-> "success", error |-> "none", analysed |-> TRUE,
         outlier_count |-> IF series = <<>> THEN 0
                           ELSE count_outliers(series, series)]

InitColumn ==
    /\ analysis_session = InitialSession
    /\ prev_session = InitialSession
    /\ call = [name |-> "none", args |-> NoArgs]
    /\ response = NoArgs
    /\ handler_run = "none"
    /\ phase_run = 0
    /\ loads = 0
    /\ succ_count = 0
    /\ fresh = FALSE
    /\ exception = NoException
    /\ clients = NoClients
    /\ loop = NoTasks
    /\ skew_case = NoSkew
    /\ overview_case = NoOverview
    /\ json_case = NoJson
    /\ \E cells \in ColumnValues : column_case = [NoColumn EXCEPT !.cells = cells]

NumericExplorationColumn ==
    /\ column_case.numeric_exploration.status = "none"
    /\ column_case' = [column_case EXCEPT
          !.numeric_exploration = numeric_exploration_column(column_case.cells)]
    /\ UNCHANGED <<session_vars, skew_case, overview_case, json_case>>

ExploratoryAnalysisColumn ==
    /\ column_case.exploratory_analysis.status = "none"
    /\ column_case' = [column_case EXCEPT
          !.exploratory_analysis = exploratory_analysis_column(column_case.cells)]
    /\ UNCHANGED <<session_vars, skew_case, overview_case, json_case>>

NextColumn == NumericExplorationColumn \/ ExploratoryAnalysisColumn

SpecColumn == InitColumn /\ [][NextColumn]_vars

-----------------------------------------------------------------------------
(* dataset_overview on a dataset that exists and loads, described by its   *)
(* number of rows and columns and the number of its missing cells.         *)
MaxRows == 8

MaxColumns == 3

(* Faulty variant: the digits after the first decimal are dropped. *)
round_truncating(num, den) == {(10 * num) \div den}

(* round(num / den, 1) in tenths, for num >= 0 and den > 0.  The source    *)
(* rounds a binary float: where the quotient lies exactly halfway between  *)
(* two tenths the float may sit on either side, so both neighbours are     *)
(* possible results there.                                                 *)
round(num, den) ==
    LET q == (10 * num) \div den
        r == (10 * num) % den
    IN  IF 2 * r < den THEN {q}
        ELSE IF 2 * r > den THEN {q + 1}
        ELSE {q, q + 1}

(* quality_score of lines 885-887: with no cell at all the numpy division  *)
(* 0 / 0 gives nan, and nan stays nan through round and                    *)
(* safe_json_serialize.                                                    *)
quality_score(total_cells, missing_cells) ==
    IF total_cells = 0 THEN {[nan |-> TRUE, tenths |-> 0]}
    ELSE {[nan |-> FALSE, tenths |-> t] :
             t \in round((total_cells - missing_cells) * 10, total_cells)}

(* The replies handle_dataset_overview can give for such a dataset. *)
dataset_overview_result(rows, columns, missing) ==
    {[status |-> "success", rows |-> rows, columns |-> columns,
      overall_quality_score |-> score, total_missing_values |-> missing] :
        score \in quality_score(rows * columns, missing)}

InitOverview ==
    /\ analysis_session = InitialSession
    /\ prev_session = InitialSession
    /\ call = [name |-> "none", args |-> NoArgs]
    /\ response = NoArgs
    /\ handler_run = "none"
    /\ phase_run = 0
    /\ loads = 0
    /\ succ_count = 0
    /\ fresh = FALSE
    /\ exception = NoException
    /\ clients = NoClients
    /\ loop = NoTasks
    /\ skew_case = NoSkew
    /\ column_case = NoColumn
    /\ json_case = NoJson
    /\ \E rows \in 0..MaxRows, columns \in 1..MaxColumns :
          \E missing \in 0..(rows * columns) :
              overview_case = [NoOverview EXCEPT !.rows = rows, !.columns = columns,
                                                 !.missing = missing]

DatasetOverview ==
    /\ overview_case.reply.status = "none"
    /\ \E reply \in dataset_overview_result(overview_case.rows, overview_case.columns,
                                            overview_case.missing) :
          overview_case' = [overview_case EXCEPT !.reply = reply]
    /\ UNCHANGED <<session_vars, skew_case, column_case, json_case>>

SpecOverview == InitOverview /\ [][DatasetOverview]_vars

-----------------------------------------------------------------------------
(* safe_json_serialize, on objects up to two containers deep. *)
MaxItems == 2

ScalarKinds ==
    {"None", "float", "nan", "np.float64", "np.nan", "np.int64", "np.bool_",
     "pd.NA", "str", "pd.Timestamp"}

(* What a Series, an Index or an array can hold. *)
ElementKinds == {"np.float64", "np.nan", "None", "pd.NA", "str"}

ArrayKinds == {"pd.Series", "pd.Index", "np.ndarray"}

List(items) == [kind |-> "list", keys |-> <<>>, items |-> items]

SeqsOf(S) == UNION {[1..n -> S] : n \in 1..MaxItems}

Arrays ==
    {[kind |-> a, keys |-> <<>>, items |-> items] :
        a \in ArrayKinds, items \in SeqsOf({Scalar(k) : k \in ElementKinds})}

(* The dicts (with str keys or with int keys), lists and tuples whose      *)
(* sequence of items is in S.                                              *)
Wrappers(S) ==
    {[kind |-> "dict", keys |-> [i \in DOMAIN items |-> key], items |-> items] :
        key \in {"str", "int"}, items \in S}
    \cup {[kind |-> c, keys |-> <<>>, items |-> items] :
             c \in {"list", "tuple"}, items \in S}

(* Scalars, arrays, containers of scalars, and containers of one array or  *)
(* of one container of scalars.                                            *)
Objects ==
    LET Scalars == {Scalar(k) : k \in ScalarKinds}
        Flat == Wrappers(SeqsOf(Scalars))
        Nested == Wrappers({<<x>> : x \in Arrays \cup Flat})
    IN  Scalars \cup Arrays \cup Flat \cup Nested

(* The Python scalar Series.tolist() and ndarray.tolist() give for an      *)
(* element: a numpy number becomes a Python number, NaN stays NaN, and     *)
(* None, pd.NA and strings stay what they are.                             *)
tolist(obj) ==
    LET item(x) ==
            CASE x.kind = "np.float64" -> Scalar("float")
              [] x.kind = "np.nan" -> Scalar("nan")
              [] x.kind = "np.int64" -> Scalar("int")
              [] x.kind = "np.bool_" -> Scalar("bool")
              [] OTHER -> x
    IN  List([i \in DOMAIN obj.items |-> item(obj.items[i])])

(* pd.isna on a scalar. *)
isna(obj) == obj.kind \in {"None", "nan", "np.nan", "pd.NA", "pd.NaT"}

(* safe_json_serialize, lines 53-76, branch by branch: a dict gets str     *)
(* keys and serialized values, a list or tuple becomes the list of its     *)
(* serialized items, a Series, Index or array is answered with tolist()    *)
(* and not visited further, a numpy number becomes float(obj) (NaN         *)
(* included, since that test precedes pd.isna), a numpy bool a bool, any   *)
(* other missing scalar None, and a pandas object its str().               *)
RECURSIVE safe_json_serialize(_)
safe_json_serialize(obj) ==
    CASE obj.kind = "dict" ->
            [kind |-> "dict", keys |-> [i \in DOMAIN obj.keys |-> "str"],
             items |-> [i \in DOMAIN obj.items |-> safe_json_serialize(obj.items[i])]]
      [] obj.kind \in {"list", "tuple"} ->
            List([i \in DOMAIN obj.items |-> safe_json_serialize(obj.items[i])])
      [] obj.kind \in ArrayKinds -> tolist(obj)
      [] obj.kind \in {"np.float64", "np.int64"} -> Scalar("float")
      [] obj.kind = "np.nan" -> Scalar("nan")
      [] obj.kind = "np.bool_" -> Scalar("bool")
      [] isna(obj) -> Scalar("None")
      [] obj.kind = "pd.Timestamp" -> Scalar("str")
      [] OTHER -> obj

InitJson ==
    /\ analysis_session = InitialSession
    /\ prev_session = InitialSession
    /\ call = [name |-> "none", args |-> NoArgs]
    /\ response = NoArgs
    /\ handler_run = "none"
    /\ phase_run = 0
    /\ loads = 0
    /\ succ_count = 0
    /\ fresh = FALSE
    /\ exception = NoException
    /\ clients = NoClients
    /\ loop = NoTasks
    /\ skew_case = NoSkew
    /\ column_case = NoColumn
    /\ overview_case = NoOverview
    /\ \E obj \in Objects : json_case = [NoJson EXCEPT !.obj = obj]

SafeJsonSerialize ==
    /\ ~json_case.called
    /\ json_case' = [json_case EXCEPT !.result = safe_json_serialize(json_case.obj),
                                      !.called = TRUE]
    /\ UNCHANGED <<session_vars, skew_case, column_case, overview_case>>

SpecJson == InitJson /\ [][SafeJsonSerialize]_vars

-----------------------------------------------------------------------------
(* One session driven to its end: a client starts an analysis while the    *)
(* session is idle and from then on sends continue_analysis only.  The     *)
(* client keeps calling and server.run (line 2982) answers every request   *)
(* it receives, so a continue_analysis request that stays possible is      *)
(* eventually served, and so is the wait for the next request.             *)
NextRepeat ==
    \/ analysis_session.current_step = 0 /\ StartGuidedAnalysis
    \/ ContinueAnalysis
    \/ AwaitRequest

SpecRepeat ==
    /\ Init
    /\ [][NextRepeat]_vars
    /\ WF_vars(ContinueAnalysis)
    /\ WF_vars(AwaitRequest)

-----------------------------------------------------------------------------
(* Properties of the guided analysis session and of the dispatcher.        *)

N == Len(ANALYSIS_STEPS)

IsPrefix(a, b) == Len(a) <= Len(b) /\ SubSeq(b, 1, Len(a)) = a

ArgPath(args) == Get(args, "file_path", "")

ArgGoal(args) == Get(args, "analysis_goal", "comprehensive exploration")

ErrorPayload(r) == "error" \in DOMAIN r

SuccessPayload(r) ==
    "error" \notin DOMAIN r /\ Get(r, "status", "none") \in {"success", "completed"}

(* C1: after exactly k continue_analysis calls answered "success" since a  *)
(* successful start_guided_analysis, with no start call in between and     *)
(* k <= N, the session has len(completed_steps) = k and current_step =     *)
(* k + 1.                                                                  *)
C1_SessionProgression ==
    (fresh /\ succ_count <= N) =>
        /\ Len(analysis_session.completed_steps) = succ_count
        /\ analysis_session.current_step = succ_count + 1

(* C2: in every reachable state current_step is 0 or lies in 1..N+1. *)
C2_StepRange == analysis_session.current_step \in 0..(N + 1)

C2_Witness ==
    /\ call.name = "continue_analysis"
    /\ prev_session.current_step = N + 1
    /\ analysis_session.current_step = N + 1

(* C3: whenever the session is active, len(completed_steps) equals         *)
(* current_step - 1, also after a call that answered with an error.        *)
C3_CompletedLength ==
    analysis_session.current_step >= 1 =>
        Len(analysis_session.completed_steps) = analysis_session.current_step - 1

C3_Witness ==
    /\ call.name = "continue_analysis"
    /\ ErrorPayload(response)
    /\ prev_session.current_step = 2
    /\ analysis_session.current_step = 3

(* C4: a call other than start_guided_analysis leaves the findings it      *)
(* found as a prefix of the findings it leaves: nothing is removed or      *)
(* reordered.                                                              *)
C4_FindingsAppendOnly ==
    call.name \notin {"none", "start_guided_analysis"} =>
        IsPrefix(prev_session.findings, analysis_session.findings)

C4_Witness ==
    /\ call.name = "continue_analysis"
    /\ Len(prev_session.findings) > 0
    /\ Len(analysis_session.findings) > Len(prev_session.findings)

(* C5: a successful start_guided_analysis, from any state, leaves          *)
(* current_step = 1, completed_steps empty, and the goal, file path,       *)
(* dataset and findings of the new call.                                   *)
C5_StartResets ==
    (call.name = "start_guided_analysis" /\ Succeeded(response)) =>
        /\ analysis_session.current_step = 1
        /\ analysis_session.completed_steps = <<>>
        /\ analysis_session.analysis_goal = ArgGoal(call.args)
        /\ analysis_session.file_path = ArgPath(call.args)
        /\ analysis_session.data = <<ArgPath(call.args), "optimized">>
        /\ analysis_session.findings = response.initial_findings
        /\ Len(analysis_session.findings) > 0

C5_Witness ==
    /\ call.name = "start_guided_analysis"
    /\ Succeeded(response)
    /\ prev_session.current_step = 3
    /\ prev_session.file_path # analysis_session.file_path
    /\ prev_session.analysis_goal # analysis_session.analysis_goal

(* C6: a continue_analysis call that finds current_step > N answers with   *)
(* the completion summary of the session (its completed_steps, the number  *)
(* of its findings, its goal) and leaves the session unchanged, whatever   *)
(* its arguments.                                                          *)
C6_TerminalIdempotence ==
    (call.name = "continue_analysis" /\ prev_session.current_step > N) =>
        /\ analysis_session = prev_session
        /\ "status" \in DOMAIN response /\ response.status = "completed"
        /\ response.summary.completed_steps = prev_session.completed_steps
        /\ response.summary.total_findings = Len(prev_session.findings)
        /\ response.summary.analysis_goal = prev_session.analysis_goal

C6_Witness ==
    /\ call.name = "continue_analysis"
    /\ prev_session.current_step = N + 1
    /\ "user_response" \in DOMAIN call.args
    /\ call.args.user_response = NullVal

(* C7: a continue_analysis call that finds the session idle answers with   *)
(* the "No active analysis session" error, runs no phase function and      *)
(* leaves the session unchanged, whatever its arguments.                   *)
C7_IdleContinue ==
    (call.name = "continue_analysis" /\ prev_session.current_step = 0) =>
        /\ response =
              [error |-> <<"No active analysis session. Please start with 'start_guided_analysis' first.">>]
        /\ phase_run = 0
        /\ analysis_session = prev_session

C7_Witness ==
    /\ call.name = "continue_analysis"
    /\ prev_session.current_step = 0
    /\ "user_response" \in DOMAIN call.args

(* C8: start_guided_analysis on a path that does not exist answers         *)
(* {"error": "File not found: <path>"}, loads nothing and leaves the       *)
(* session as it found it.                                                 *)
C8_MissingFile ==
    (/\ call.name = "start_guided_analysis"
     /\ ArgPath(call.args) # JsonNull
     /\ ArgPath(call.args) \notin ExistingPaths) =>
        /\ response = [error |-> <<"File not found: ", ArgPath(call.args)>>]
        /\ loads = 0
        /\ analysis_session = prev_session

C8_Witness ==
    /\ call.name = "start_guided_analysis"
    /\ ArgPath(call.args) = "missing.csv"
    /\ prev_session.current_step = 3
    /\ Len(prev_session.findings) > 0

(* C9: every request is answered with exactly one payload, which is an     *)
(* error payload or a success payload and not both; no exception of a      *)
(* handler or of the serialization leaves handle_call_tool.                *)
C9_DispatcherTotality ==
    call.name # "none" =>
        /\ ErrorPayload(response) # SuccessPayload(response)
        /\ "unhandled_exception" \notin DOMAIN response

C9_Witness ==
    /\ call.name = "distribution_checks"
    /\ ErrorPayload(response)
    /\ "tool" \in DOMAIN response

(* C10: a name that matches no branch of the dispatcher is answered with   *)
(* exactly {"error": "Unknown tool: <name>"}; no handler runs and the      *)
(* session is unchanged.                                                   *)
C10_UnknownTool ==
    (call.name # "none" /\ call.name \notin DispatchNames) =>
        /\ response = [error |-> <<"Unknown tool: ", call.name>>]
        /\ handler_run = "none"
        /\ phase_run = 0
        /\ loads = 0
        /\ analysis_session = prev_session

C10_Witness ==
    /\ call.name = "nonexistent_tool"
    /\ prev_session.current_step = 2

(* C11: every catalog tool that takes file_path, called with a path that   *)
(* does not exist, answers {"error": "File not found: <path>"} before it   *)
(* loads anything or validates another argument.                           *)
C11_FileNotFoundFirst ==
    (/\ call.name \in FilePathTools
     /\ ArgPath(call.args) # JsonNull
     /\ ArgPath(call.args) \notin ExistingPaths) =>
        /\ response = [error |-> <<"File not found: ", ArgPath(call.args)>>]
        /\ loads = 0

(* An exception was raised while the handler of the request ran. *)
HandlerException == exception.type \notin {"none", DumpsError}

Last(seq) == seq[Len(seq)]

ContinueWithoutResponse ==
    /\ call.name = "continue_analysis"
    /\ prev_session.current_step \in 1..N
    /\ Get(call.args, "user_response", StrVal(0)) = StrVal(0)

(* C13, as stated: continue_analysis on an active session with no          *)
(* user_response answers with an error, runs no phase function and does    *)
(* not advance the session.                                                *)
C13_NoResponseRejected ==
    ContinueWithoutResponse =>
        /\ ErrorPayload(response)
        /\ phase_run = 0
        /\ analysis_session = prev_session

(* C13, amended: continue_analysis on an active session with no            *)
(* user_response is accepted like any other: the phase function of the     *)
(* current step runs; unless it raises, the session advances by one step,  *)
(* and the reply is the success payload with an empty user_input unless    *)
(* its serialization fails.                                                *)
C13_NoResponseAccepted ==
    ContinueWithoutResponse =>
        /\ phase_run = prev_session.current_step
        /\ CASE exception.type = "none" ->
                  /\ Succeeded(response)
                  /\ response.step_completed.user_input = StrVal(0)
                  /\ analysis_session.current_step = prev_session.current_step + 1
             [] exception.type = DumpsError ->
                  /\ ErrorPayload(response)
                  /\ analysis_session.current_step = prev_session.current_step + 1
             [] OTHER ->
                  /\ ErrorPayload(response)
                  /\ analysis_session = prev_session

C13_Witness ==
    /\ ContinueWithoutResponse
    /\ call.args = NoArgs
    /\ prev_session.current_step = 2
    /\ Succeeded(response)
    /\ analysis_session.current_step = 3

(* C14: a continue_analysis call answered "success" from phase i reports   *)
(* the completed phase i, progress with the number of completed steps out  *)
(* of N, and exactly one of the next phase (when i < N) or the completion  *)
(* message (when i = N); progress is 100 percent exactly when the          *)
(* completion message is present.                                          *)
C14_ContinueReply ==
    (call.name = "continue_analysis" /\ Succeeded(response)) =>
        LET i == prev_session.current_step
            has_next == "next_step" \in DOMAIN response
            has_completion == "completion" \in DOMAIN response
        IN  /\ i \in 1..N
            /\ response.step_completed.number = i
            /\ response.step_completed.name = ANALYSIS_STEPS[i].name
            /\ response.progress.completed_steps
                  = Len(analysis_session.completed_steps)
            /\ response.progress.completed_steps = i
            /\ response.progress.total_steps = N
            /\ has_next # has_completion
            /\ has_next <=> i < N
            /\ has_completion <=> i = N
            /\ has_next =>
                  /\ response.next_step.number = i + 1
                  /\ response.next_step.name = ANALYSIS_STEPS[i + 1].name
                  /\ response.next_questions = <<"questions", i + 1>>
            /\ response.progress.progress_percent = 100 <=> has_completion

C14_Witness ==
    /\ call.name = "continue_analysis"
    /\ Succeeded(response)
    /\ prev_session.current_step = N
    /\ "completion" \in DOMAIN response
    /\ response.progress.progress_percent = 100

InHandler(t) == loop.tasks[t].pc \notin {"idle", "ready"}

(* The session the handler of the task leaves when it runs alone. *)
AtomicEffect(k) ==
    IF k.name = "start_guided_analysis"
    THEN handle_start_guided_analysis(k.entry, k.args).sess
    ELSE handle_continue_analysis(k.entry, k.args).sess

(* C16: a start_guided_analysis or continue_analysis call runs to          *)
(* completion before another call touches the session: while a task is in  *)
(* its handler it is the task executing, no other task is in a handler,    *)
(* the session is as the task's own last statement left it (also between   *)
(* start's reset and its later assignments, and between continue's three   *)
(* updates), and what it leaves is what the handler leaves run alone.      *)
C16_RequestSerialized ==
    \A t \in Tasks :
        InHandler(t) =>
            /\ loop.running = t
            /\ \A u \in Tasks \ {t} : ~InHandler(u)
            /\ loop.tasks[t].seen = analysis_session
            /\ loop.tasks[t].pc = "done" =>
                  analysis_session = AtomicEffect(loop.tasks[t])

C16_Witness ==
    /\ loop.tasks[1].pc = "append"
    /\ loop.tasks[1].current_step_num = 2
    /\ loop.tasks[2].pc = "ready"
    /\ loop.tasks[2].name = "start_guided_analysis"
    /\ Len(analysis_session.findings) > Len(loop.tasks[1].entry.findings)
    /\ analysis_session.current_step = 2

(* C17: a tool other than start_guided_analysis and continue_analysis      *)
(* neither modifies nor reads the session: the call leaves the session,    *)
(* with its current_step, findings, completed_steps and dataset, as it     *)
(* found it, and its reply is the reply the same call gets from the        *)
(* session at import time.                                                 *)
C17_SessionFrame ==
    (call.name \notin SessionTools \cup {"none"}) =>
        /\ analysis_session = prev_session
        /\ response = handle_call_tool(call.name, InitialSession, call.args).response

C17_Witness ==
    /\ call.name = "optimize_memory"
    /\ Succeeded(response)
    /\ prev_session.current_step = 3
    /\ Len(prev_session.findings) > 0
    /\ ArgPath(call.args) # prev_session.file_path

(* C18: the names of the catalog are pairwise distinct, they include the   *)
(* twelve names the connection test advertises, and a call of any of them  *)
(* is routed to a handler function that exists: it is never answered       *)
(* "Unknown tool" and never fails because the handler is missing.          *)
C18_CatalogRouted ==
    /\ Cardinality(CatalogNames) = Len(ToolCatalog)
    /\ AdvertisedTools \subseteq CatalogNames
    /\ call.name \in CatalogNames =>
          /\ response # [error |-> <<"Unknown tool: ", call.name>>]
          /\ handler_run = call.name
          /\ exception.type # "NameError"

(* C19: correlation_analysis on a file that exists and loads with fewer    *)
(* than 2 numeric columns answers {"error": "Need at least 2 numeric       *)
(* columns for correlation analysis"} and computes no correlation,         *)
(* whatever the method argument.                                           *)
C19_TooFewNumericColumns ==
    (/\ call.name = "correlation_analysis"
     /\ ArgPath(call.args) \in ExistingPaths \ UnreadablePaths
     /\ NumericCols(ArgPath(call.args)) < 2) =>
        /\ response =
              [error |-> <<"Need at least 2 numeric columns for correlation analysis">>]
        /\ "correlation_results" \notin DOMAIN response
        /\ exception.type = "none"
        /\ loads = 1

C19_Witness ==
    /\ call.name = "correlation_analysis"
    /\ call.args = [file_path |-> "survey.csv", method |-> "kendall"]
    /\ NumericCols("survey.csv") = 1
    /\ ErrorPayload(response)

(* The class the rule of the claim gives a skewness value, and the class   *)
(* a label of either tool stands for.                                      *)
ClaimedClass(v) ==
    IF abs(v) < HalfSkew THEN "normal"
    ELSE IF abs(v) <= OneSkew THEN "moderate"
    ELSE "high"

LabelClass(label) ==
    CASE label \in {"Approximately normal", "approximately symmetric"} -> "normal"
      [] label \in {"Moderately skewed", "moderately skewed"} -> "moderate"
      [] label \in {"Highly skewed", "highly skewed"} -> "high"
      [] OTHER -> "none"

RuleOutliers(cells) ==
    LET series == dropna(cells)
        Q1 == quantile(series, 1)
        Q3 == quantile(series, 3)
    IN  {i \in DOMAIN cells :
            /\ ~cells[i].na
            /\ \/ 8 * cells[i].v < 2 * Q1 - 3 * (Q3 - Q1)
               \/ 8 * cells[i].v > 2 * Q3 + 3 * (Q3 - Q1)}

HasValue(cells) == \E i \in DOMAIN cells : ~cells[i].na

(* C21: in numeric_exploration and in phase 2 of the guided analysis the   *)
(* outlier count of a column is the number of its non-missing values       *)
(* strictly below Q1 - 1.5 * IQR or strictly above Q3 + 1.5 * IQR; a value *)
(* equal to a bound is not counted.                                        *)
C21_IqrOutliers ==
    /\ column_case.numeric_exploration.analysed =>
          column_case.numeric_exploration.outlier_count =
              Cardinality(RuleOutliers(column_case.cells))
    /\ (column_case.exploratory_analysis.analysed /\ HasValue(column_case.cells)) =>
          column_case.exploratory_analysis.outlier_count =
              Cardinality(RuleOutliers(column_case.cells))

(* The column 1, NaN, 0, 2, 1: Q1 = 0.75 and Q3 = 1.25, so the bounds are  *)
(* 0 and 2, and the values 0 and 2 on the bounds are not counted.          *)
C21_Witness ==
    /\ Len(column_case.cells) = 5
    /\ column_case.cells[2].na
    /\ dropna(column_case.cells) = <<1, 0, 2, 1>>
    /\ column_case.numeric_exploration.analysed
    /\ column_case.exploratory_analysis.analysed
    /\ column_case.numeric_exploration.outlier_count = 0

(* C30: numeric_exploration returns a success payload whenever the dataset *)
(* has a selected numeric column with a non-missing value; a column whose  *)
(* mean is exactly 0 does not turn the call into an error.                 *)
C30_ZeroMeanSucceeds ==
    (/\ column_case.numeric_exploration.status # "none"
     /\ HasValue(column_case.cells)) =>
        column_case.numeric_exploration.status = "success"

RECURSIVE JsonRepresentable(_)
JsonRepresentable(x) ==
    CASE x.kind \in {"str", "float", "int", "bool", "None"} -> TRUE
      [] x.kind = "list" -> \A i \in DOMAIN x.items : JsonRepresentable(x.items[i])
      [] x.kind = "dict" ->
            /\ \A i \in DOMAIN x.keys : x.keys[i] = "str"
            /\ \A i \in DOMAIN x.items : JsonRepresentable(x.items[i])
      [] OTHER -> FALSE

(* Every missing value of obj is null at its place in result. *)
RECURSIVE NullWhereMissing(_, _)
NullWhereMissing(obj, result) ==
    IF isna(obj) THEN result.kind = "None"
    ELSE /\ Len(result.items) = Len(obj.items)
         /\ \A i \in DOMAIN obj.items : NullWhereMissing(obj.items[i], result.items[i])

(* C24: safe_json_serialize returns, at every nesting depth, only          *)
(* JSON-representable values, and every missing value (NaN, NA, None)      *)
(* anywhere in its input, a Series, Index or array nested in a mapping or  *)
(* list included, is null in the output.                                   *)
C24_JsonSafe ==
    json_case.called =>
        /\ JsonRepresentable(json_case.result)
        /\ NullWhereMissing(json_case.obj, json_case.result)

(* The names of the phases, in the order of ANALYSIS_STEPS. *)
PhaseNames == [i \in 1..N |-> ANALYSIS_STEPS[i].name]

(* C23: within one session the phase functions run in the fixed order      *)
(* 1..N, each at most once: the k-th continue_analysis answered "success"  *)
(* after the start runs phase k, and completed_steps is always a prefix of *)
(* the sequence of phase names.                                            *)
C23_PhaseOrder ==
    /\ IsPrefix(analysis_session.completed_steps, PhaseNames)
    /\ (call.name = "continue_analysis" /\ fresh /\ Succeeded(response)) =>
          phase_run = succ_count

(* C25: a continue_analysis call that returns an error payload leaves      *)
(* current_step, completed_steps and findings exactly as they were before  *)
(* the call, whatever the argument mapping.                                *)
C25_FailedContinueKeepsSession ==
    (call.name = "continue_analysis" /\ ErrorPayload(response)) =>
        /\ analysis_session.current_step = prev_session.current_step
        /\ analysis_session.completed_steps = prev_session.completed_steps
        /\ analysis_session.findings = prev_session.findings

(* C26: a start_guided_analysis call that returns an error payload leaves  *)
(* the previous session unchanged; the session is replaced only when the   *)
(* start succeeds.                                                         *)
C26_FailedStartKeepsSession ==
    (call.name = "start_guided_analysis" /\ ErrorPayload(response)) =>
        analysis_session = prev_session

NoActiveSession ==
    <<"No active analysis session. Please start with 'start_guided_analysis' first.">>

(* C27: once a start has succeeded, no sequence of later calls returns the *)
(* session to Idle: an active session (current_step >= 1) stays active     *)
(* through every request, and the request is not answered "No active       *)
(* analysis session".                                                      *)
C27_NeverIdleAgain ==
    [][analysis_session.current_step >= 1 =>
          /\ analysis_session'.current_step >= 1
          /\ ~(ErrorPayload(response') /\ response'.error = NoActiveSession)]_vars

(* A start that fails on a session whose five phases are done, answered    *)
(* while the session is still there.                                       *)
C27_Witness ==
    /\ call.name = "start_guided_analysis"
    /\ ErrorPayload(response)
    /\ prev_session.current_step = N + 1
    /\ analysis_session.current_step >= 1

(* C28: if continue_analysis is called repeatedly on an active session,    *)
(* with no start in between, the session eventually reaches Completed      *)
(* (current_step = N + 1); it cannot stay in the same phase forever.       *)
C28_EventuallyCompleted ==
    (analysis_session.current_step >= 1) ~> (analysis_session.current_step = N + 1)

(* C29: in skewness_analysis the label of a column and the summary counts  *)
(* agree: the column is counted in highly_skewed_count iff its symmetry    *)
(* assessment is "highly skewed", in moderately_skewed_count iff it is     *)
(* "moderately skewed", and in symmetric_count iff it is "approximately    *)
(* symmetric".                                                             *)
C29_SummaryMatchesLabels ==
    skew_case.symmetry # "none" =>
        /\ "highly_skewed" \in skew_case.summary <=>
              skew_case.symmetry = "highly skewed"
        /\ "moderately_skewed" \in skew_case.summary <=>
              skew_case.symmetry = "moderately skewed"
        /\ "symmetric" \in skew_case.summary <=>
              skew_case.symmetry = "approximately symmetric"

====
